---- MODULE Spec2Model ----
(***************************************************************************)
(* Model of distrod/libs/src/distro.rs: the Distro orchestrator, the       *)
(* RunInfo file at /var/run/distrod.json, the process table the recorded   *)
(* init PID is validated against, and the /etc/environment preparation.    *)
(* Strings are sequences of one-character strings, so that prefixing,      *)
(* substring search, replacement and byte-offset writes are computed.      *)
(***************************************************************************)
EXTENDS Integers, Sequences, FiniteSets, TLC

\* ------------------------------------------------------------- bounds
MaxPathLen == 3      \* longest PATH value drawn for an initial state
MaxLines == 2        \* most lines of an initial /etc/environment
NumLaunchers == 1    \* rootfs directories a Distro is installed in
NumPids == 1         \* size of the kernel's PID pool
NumConcurrent == 2   \* launches that run at the same time, each with a PID
MaxMounts == 2       \* most entries of a mount table
MaxDepth == 2        \* most components of a mount point's path

\* ------------------------------------------------------------- strings
\* The characters PATH values are built from: the two characters of the
\* tooling bin directory and the PATH separator.
PathAlphabet == {"/", "d", ":"}

\* distrod_config::get_distrod_bin_dir_path(): an absolute directory path
\* with no ':' in it ("/opt/distrod/bin" in the repository), shortened to
\* two characters.
DistrodBinDir == <<"/", "d">>

RECURSIVE SeqsUpTo(_, _)
SeqsUpTo(S, n) ==
    IF n = 0 THEN {<<>>}
    ELSE LET shorter == SeqsUpTo(S, n - 1)
         IN  shorter \cup {Append(s, c) : s \in shorter, c \in S}

PathStrings == SeqsUpTo(PathAlphabet, MaxPathLen)

StartsWith(s, pat) ==
    /\ Len(s) >= Len(pat)
    /\ SubSeq(s, 1, Len(pat)) = pat

\* str::contains
Contains(s, pat) ==
    \E i \in 0..(Len(s) - Len(pat)) : SubSeq(s, i + 1, i + Len(pat)) = pat

\* str::replace(pat, ""): every non-overlapping match, scanning left to right
RECURSIVE RemoveAll(_, _)
RemoveAll(s, pat) ==
    IF Len(s) < Len(pat) \/ Len(pat) = 0 THEN s
    ELSE IF StartsWith(s, pat)
         THEN RemoveAll(SubSeq(s, Len(pat) + 1, Len(s)), pat)
         ELSE <<Head(s)>> \o RemoveAll(Tail(s), pat)

\* number of (possibly overlapping) places where pat starts in s
Occurrences(s, pat) ==
    Cardinality({i \in 0..(Len(s) - Len(pat)) : SubSeq(s, i + 1, i + Len(pat)) = pat})

\* ------------------------------------------------------------- PATH
add_distrod_bin_to_path(path) == DistrodBinDir \o <<":">> \o path

RemoveLeadingOnly(path) ==
    IF StartsWith(path, DistrodBinDir) THEN SubSeq(path, Len(DistrodBinDir) + 1, Len(path))
    ELSE path

remove_distrod_bin_from_path(path) ==
    LET result == RemoveAll(path, DistrodBinDir \o <<":">>)
    IN  RemoveAll(result, <<":">> \o DistrodBinDir)

\* ------------------------------------------------------------- EnvFile
\* A line of /etc/environment is KEY=VALUE; a comment line has key "#".
NoValue == [found |-> FALSE, val |-> <<>>]

\* collect_wsl_env_vars(): the host-injected variables, one here.
WslEnvs == << [key |-> "WSLENV", val |-> <<"/">>] >>

EnvLine(k, v) == [key |-> k, val |-> v]

AbsentFile == [present |-> FALSE, lines |-> <<>>]

\* EnvFile::open: an absent file is an empty document
EnvOpen(content) == IF content.present THEN content.lines ELSE <<>>

LastIndexOf(lines, k) ==
    LET idx == {i \in 1..Len(lines) : lines[i].key = k}
    IN  IF idx = {} THEN 0 ELSE CHOOSE i \in idx : \A j \in idx : j <= i

\* EnvFile::get: the value written last for the key
EnvGet(lines, k) ==
    LET i == LastIndexOf(lines, k)
    IN  IF i = 0 THEN NoValue ELSE [found |-> TRUE, val |-> lines[i].val]

\* EnvFile::put: rewrite the key's line in place, or append a line
EnvPut(lines, k, v) ==
    LET i == LastIndexOf(lines, k)
    IN  IF i = 0 THEN Append(lines, EnvLine(k, v))
        ELSE [lines EXCEPT ![i] = EnvLine(k, v)]

\* EnvFile::remove: delete the key's lines
EnvRemove(lines, k) == SelectSeq(lines, LAMBDA l : l.key # k)

\* EnvFile::save
EnvSave(lines) == [present |-> TRUE, lines |-> lines]

RECURSIVE PutAll(_, _)
PutAll(lines, envs) ==
    IF envs = <<>> THEN lines
    ELSE PutAll(EnvPut(lines, Head(envs).key, Head(envs).val), Tail(envs))

RECURSIVE RemoveAllKeys(_, _)
RemoveAllKeys(lines, envs) ==
    IF envs = <<>> THEN lines
    ELSE RemoveAllKeys(EnvRemove(lines, Head(envs).key), Tail(envs))

PathHasBin(lines) ==
    LET p == EnvGet(lines, "PATH") IN p.found /\ Contains(p.val, DistrodBinDir)

\* setup_etc_environment_file, when no step of it fails
setup_etc_environment_file(content) ==
    LET merged == PutAll(EnvOpen(content), WslEnvs)
    IN  IF ~PathHasBin(merged)
        THEN EnvSave(EnvPut(merged, "PATH",
                            add_distrod_bin_to_path(EnvGet(merged, "PATH").val)))
        ELSE EnvSave(merged)

\* cleanup_etc_environment_file, when no step of it fails
cleanup_etc_environment_file(content) ==
    IF ~content.present THEN content
    ELSE LET stripped == RemoveAllKeys(EnvOpen(content), WslEnvs)
         IN  IF PathHasBin(stripped)
             THEN EnvSave(EnvPut(stripped, "PATH",
                                 remove_distrod_bin_from_path(EnvGet(stripped, "PATH").val)))
             ELSE EnvSave(stripped)

\* ------------------------------------------------------------- RunInfo
Launchers == 1..NumLaunchers
ConcLaunchers == 1..NumConcurrent
Pids == 1..NumPids
ConcPids == 1..NumConcurrent

\* Container.init_pid is None
NoPid == 0

\* the rootfs directory of the i-th Distro: "/r", "/rr", ...
RootfsOf(i) == <<"/">> \o [j \in 1..i |-> "r"]

RECURSIVE ToDigits(_)
ToDigits(n) ==
    LET digit == <<"0", "1", "2", "3", "4", "5", "6", "7", "8", "9">>
    IN  IF n < 10 THEN <<digit[n + 1]>>
        ELSE ToDigits(n \div 10) \o <<digit[(n % 10) + 1]>>

DistroRunInfo(rootfs, pid) == [rootfs |-> rootfs, init_pid |-> pid]

\* serde_json::to_vec(&run_info): {"rootfs":"<path>","init_pid":<n>}
Serialize(info) ==
    <<"{", "\"", "r", "o", "o", "t", "f", "s", "\"", ":", "\"">>
    \o info.rootfs
    \o <<"\"", ",", "\"", "i", "n", "i", "t", "_", "p", "i", "d", "\"", ":">>
    \o ToDigits(info.init_pid)
    \o <<"}">>

\* the records a RunInfo file of this model can hold
RunInfoRecords ==
    {DistroRunInfo(RootfsOf(i), p) : i \in Launchers \cup ConcLaunchers,
                                     p \in {NoPid} \cup Pids \cup ConcPids}

\* serde_json::from_reader: the record the whole input is the JSON text of;
\* an empty, truncated or trailing-garbage input is an error
Parse(data) ==
    LET hits == {r \in RunInfoRecords : Serialize(r) = data}
    IN  IF hits = {} THEN [ok |-> FALSE, rec |-> DistroRunInfo(<<>>, NoPid)]
        ELSE [ok |-> TRUE, rec |-> CHOOSE r \in hits : TRUE]

\* the file at DISTRO_RUN_INFO_PATH: whether the path names an inode, and
\* that inode's owner and bytes
NoRunInfoFile == [exists |-> FALSE, uid |-> 0, gid |-> 0, ino |-> 0, data |-> <<>>]

\* an inode created by this (root) process through OpenOptions::create
NewRunInfoFile(ino) == [exists |-> TRUE, uid |-> 0, gid |-> 0, ino |-> ino, data |-> <<>>]

\* a write of `bytes` at offset 0 of a file opened without truncation
WriteAt0(data, bytes) == bytes \o SubSeq(data, Len(bytes) + 1, Len(data))

OpenIgnoringOwner(f, create, write, ino) ==
    IF ~f.exists
    THEN IF create THEN [kind |-> "file", file |-> NewRunInfoFile(ino)]
         ELSE [kind |-> "none", file |-> f]
    ELSE [kind |-> "file", file |-> f]

\* get_distro_run_info_file(create, write): "none" on ENOENT, "err" when the
\* file is not owned by root:root, else the open file. `ino` names the inode
\* a creating open makes.
get_distro_run_info_file(f, create, write, ino) ==
    IF ~f.exists
    THEN IF create THEN [kind |-> "file", file |-> NewRunInfoFile(ino)]
         ELSE [kind |-> "none", file |-> f]
    ELSE IF f.uid # 0 \/ f.gid # 0 THEN [kind |-> "err", file |-> f]
         ELSE [kind |-> "file", file |-> f]

ExportWritesBeforePidCheck(f, d, ino) ==
    LET probe == get_distro_run_info_file(f, FALSE, FALSE, ino)
        f1 == IF probe.kind = "file" THEN NoRunInfoFile ELSE f
        opened == get_distro_run_info_file(f1, TRUE, TRUE, ino)
        written == [opened.file EXCEPT
                       !.data = WriteAt0(@, Serialize(DistroRunInfo(d.rootfs, d.init_pid)))]
    IN  IF opened.kind = "err" THEN [kind |-> "err", why |-> "owner", file |-> f1]
        ELSE IF d.init_pid = NoPid THEN [kind |-> "err", why |-> "nopid", file |-> written]
        ELSE [kind |-> "ok", why |-> "", file |-> written]

ExportLeavesFileEmpty(f, d, ino) ==
    LET probe == get_distro_run_info_file(f, FALSE, FALSE, ino)
        f1 == IF probe.kind = "file" THEN NoRunInfoFile ELSE f
        opened == get_distro_run_info_file(f1, TRUE, TRUE, ino)
    IN  IF opened.kind = "err" THEN [kind |-> "err", why |-> "owner", file |-> f1]
        ELSE IF d.init_pid = NoPid
             THEN [kind |-> "err", why |-> "nopid", file |-> opened.file]
             ELSE [kind |-> "ok", why |-> "", file |-> opened.file]

\* Distro::export_run_info run without interruption: remove the old file if
\* it opens, open with create, fail if there is no init PID, write at drop
export_run_info(f, d, ino) ==
    LET probe == get_distro_run_info_file(f, FALSE, FALSE, ino)
        f1 == IF probe.kind = "file" THEN NoRunInfoFile ELSE f
        opened == get_distro_run_info_file(f1, TRUE, TRUE, ino)
    IN  IF opened.kind = "err" THEN [kind |-> "err", why |-> "owner", file |-> f1]
        ELSE IF d.init_pid = NoPid
             THEN [kind |-> "err", why |-> "nopid", file |-> opened.file]
             ELSE [kind |-> "ok", why |-> "",
                   file |-> [opened.file EXCEPT
                       !.data = WriteAt0(@, Serialize(DistroRunInfo(d.rootfs, d.init_pid)))]]

\* ------------------------------------------------------------- processes
FreeSlot == [kind |-> "free", of |-> 0]
InitOf(i) == [kind |-> "init", of |-> i]
OtherProcess == [kind |-> "other", of |-> 0]

\* ProcFile::from_pid(pid).is_some(): the PID is in use now
ProcFile_from_pid(pr, pid) == pid \in DOMAIN pr /\ pr[pid].kind # "free"

\* the outcome of an operation, as the caller sees it
\* (env: how the /etc/environment step of launch or stop ended; arg: the
\* sigkill argument stop was called with)
Outcome(op, who, kind, why, rootfs, pid) ==
    [op |-> op, who |-> who, kind |-> kind, why |-> why, rootfs |-> rootfs, pid |-> pid,
     env |-> "", arg |-> ""]

NoOutcome == Outcome("idle", 0, "", "", <<>>, NoPid)

GetWithoutLiveness(f, pr) ==
    LET opened == get_distro_run_info_file(f, FALSE, FALSE, 0)
        parsed == Parse(f.data)
    IN  IF opened.kind = "none" THEN Outcome("get", 0, "none", "", <<>>, NoPid)
        ELSE IF opened.kind = "err" THEN Outcome("get", 0, "err", "owner", <<>>, NoPid)
        ELSE IF ~parsed.ok THEN Outcome("get", 0, "err", "parse", <<>>, NoPid)
        ELSE Outcome("get", 0, "some", "", parsed.rec.rootfs, parsed.rec.init_pid)

\* Distro::get_running_distro
get_running_distro(f, pr) ==
    LET opened == get_distro_run_info_file(f, FALSE, FALSE, 0)
        parsed == Parse(f.data)
    IN  IF opened.kind = "none" THEN Outcome("get", 0, "none", "", <<>>, NoPid)
        ELSE IF opened.kind = "err" THEN Outcome("get", 0, "err", "owner", <<>>, NoPid)
        ELSE IF ~parsed.ok THEN Outcome("get", 0, "err", "parse", <<>>, NoPid)
        ELSE IF ~ProcFile_from_pid(pr, parsed.rec.init_pid)
             THEN Outcome("get", 0, "none", "", <<>>, NoPid)
             ELSE Outcome("get", 0, "some", "", parsed.rec.rootfs, parsed.rec.init_pid)

\* ------------------------------------------------------------- rootfs directory
\* The path given to get_installed_distro / initialize_distro_rootfs and
\* what the latter touches below it.  A unit is "enabled", "disabled",
\* "masked", or "stuck": one that SystemdUnitDisabler fails on.
to_be_disabled == {"dhcpcd.service", "NetworkManager.service", "multipathd.service"}

to_be_masked == {"systemd-remount-fs.service", "systemd-modules-load.service"}

Units == to_be_disabled \cup to_be_masked

NoTree ==
    [kind |-> "missing", abs |-> TRUE, network |-> FALSE, hostname |-> "none",
     resolv |-> "absent", units |-> [u \in Units |-> "enabled"]]

\* the trees a call may find: a directory, a regular file, or nothing; a
\* directory is named by an absolute or a relative path, has *.network files or not, an etc/hostname or not, an
\* etc/resolv.conf of the user or none, and units that are enabled or stuck
Trees ==
    {NoTree, [NoTree EXCEPT !.kind = "file"]}
    \cup [kind : {"dir"}, abs : BOOLEAN, network : BOOLEAN, hostname : {"none", "old"},
          resolv : {"absent", "user"}, units : [Units -> {"enabled", "stuck"}]]

\* SystemdUnitDisabler::disable / ::mask: the unit's new state, unless it fails
UnitAfter(state, target) == IF state = "stuck" THEN state ELSE target

InstalledWithoutDirCheck(t) == [kind |-> "some"]

\* Distro::get_installed_distro(Some(path)): Ok(None) unless path.is_dir()
get_installed_distro(t) ==
    IF t.kind # "dir" THEN [kind |-> "none"] ELSE [kind |-> "some"]

InitializeUnitsOnlyIfFlag(t, overwrites_potential_userfiles) ==
    LET t1 == [t EXCEPT !.network = FALSE, !.hostname = "host"]
        t2 == [t1 EXCEPT !.resolv = "empty",
                         !.units = [u \in Units |->
                                       UnitAfter(t1.units[u], IF u \in to_be_disabled
                                                              THEN "disabled" ELSE "masked")]]
    IN  IF t.kind = "missing" THEN [kind |-> "err", why |-> "metadata", tree |-> t]
        ELSE IF t.kind # "dir" THEN [kind |-> "err", why |-> "notdir", tree |-> t]
        ELSE IF ~overwrites_potential_userfiles THEN [kind |-> "ok", why |-> "", tree |-> t1]
        ELSE IF ~t.abs \/ t1.resolv = "absent"
             THEN [kind |-> "err", why |-> "resolv", tree |-> t1]
        ELSE [kind |-> "ok", why |-> "", tree |-> t2]

\* initialize_distro_rootfs(path, overwrites_potential_userfiles).  The file
\* removed under the flag is path.join(path.join("etc/resolv.conf")): the
\* resolv.conf of the tree for an absolute path, and for a relative path a
\* file below path/path, which is taken not to exist.
initialize_distro_rootfs(t, overwrites_potential_userfiles) ==
    LET t1 == [t EXCEPT !.network = FALSE, !.hostname = "host"]
        t2 == IF overwrites_potential_userfiles THEN [t1 EXCEPT !.resolv = "empty"] ELSE t1
        t3 == [t2 EXCEPT !.units = [u \in Units |->
                                       UnitAfter(t2.units[u], IF u \in to_be_disabled
                                                              THEN "disabled" ELSE "masked")]]
    IN  IF t.kind = "missing" THEN [kind |-> "err", why |-> "metadata", tree |-> t]
        ELSE IF t.kind # "dir" THEN [kind |-> "err", why |-> "notdir", tree |-> t]
        ELSE IF overwrites_potential_userfiles /\ (~t.abs \/ t1.resolv = "absent")
             THEN [kind |-> "err", why |-> "resolv", tree |-> t1]
        ELSE [kind |-> "ok", why |-> "", tree |-> t3]

\* ------------------------------------------------------------- mount table
\* A mount point's path is its sequence of components; get_mount_entries
\* gives the entries of the table or fails.
DISTRO_OLD_ROOT_PATH == <<"mnt", "distrod_root">>

PathComponents == {"mnt", "distrod_root", "x"}

MountPaths == SeqsUpTo(PathComponents, MaxDepth)

NoMounts == [readable |-> TRUE, entries |-> <<>>]

InsideFalseOnMountError(m) ==
    /\ m.readable
    /\ \E k \in DOMAIN m.entries : StartsWith(m.entries[k], DISTRO_OLD_ROOT_PATH)

\* Distro::is_inside_running_distro
is_inside_running_distro(m) ==
    \/ ~m.readable
    \/ \E k \in DOMAIN m.entries : StartsWith(m.entries[k], DISTRO_OLD_ROOT_PATH)

\* ------------------------------------------------------------- state
VARIABLES
    file,        \* the RunInfo file at DISTRO_RUN_INFO_PATH
    proc,        \* the kernel's process table: PID -> occupant
    distro,      \* the Distro values: rootfs, container init PID, phase, open fd
    etcEnv,      \* <rootfs>/etc/environment of each Distro
    preEnv,      \* history: etcEnv as it was before the first preparation
    envPhase,    \* history: "orig", "setup" or "cleaned"
    pathIn,      \* the PATH a PATH operation was given
    pathOut,     \* the PATH it produced
    lastWriter,  \* history: the launcher whose write of the record came last
    tree,        \* the directory tree at the path given to initialize_distro_rootfs
    mounts,      \* the mount table get_mount_entries reads
    result       \* the outcome of the last operation

vars == <<file, proc, distro, etcEnv, preEnv, envPhase, pathIn, pathOut, lastWriter, tree, mounts,
          result>>

NewDistro(i) == [rootfs |-> RootfsOf(i), init_pid |-> NoPid, pc |-> "new", fd |-> 0]

UnsetPath == [set |-> FALSE, val |-> <<>>]

Init ==
    /\ file = NoRunInfoFile
    /\ proc = [p \in Pids |-> FreeSlot]
    /\ distro = [i \in Launchers |-> NewDistro(i)]
    /\ etcEnv = [i \in Launchers |-> AbsentFile]
    /\ preEnv = [i \in Launchers |-> AbsentFile]
    /\ envPhase = [i \in Launchers |-> "orig"]
    /\ pathIn = UnsetPath
    /\ pathOut = <<>>
    /\ lastWriter = 0
    /\ tree = NoTree
    /\ mounts = NoMounts
    /\ result = NoOutcome

\* the history of the environment file after a preparation that took effect
EnvPrepared(i, ok) ==
    /\ etcEnv' = [etcEnv EXCEPT ![i] = IF ok THEN setup_etc_environment_file(@) ELSE @]
    /\ preEnv' = [preEnv EXCEPT ![i] = IF ok /\ envPhase[i] # "setup" THEN etcEnv[i] ELSE @]
    /\ envPhase' = [envPhase EXCEPT ![i] = IF ok THEN "setup" ELSE @]

EnvCleaned(i, ok) ==
    /\ etcEnv' = [etcEnv EXCEPT ![i] = IF ok THEN cleanup_etc_environment_file(@) ELSE @]
    /\ envPhase' = [envPhase EXCEPT ![i] = IF ok /\ @ = "setup" THEN "cleaned" ELSE @]
    /\ UNCHANGED preEnv

EnvStep(ok) == IF ok THEN "ok" ELSE "err"

ExportBeforeContainerLaunch(i, slot, envOk) ==
    LET d == IF slot = NoPid THEN distro[i]
             ELSE [distro[i] EXCEPT !.init_pid = slot, !.pc = "launched"]
        ex == export_run_info(file, d, i)
    IN  /\ file' = ex.file
        /\ lastWriter' = IF ex.kind = "ok" THEN i ELSE lastWriter
        /\ distro' = [distro EXCEPT ![i] = d]
        /\ proc' = IF slot = NoPid THEN proc ELSE [proc EXCEPT ![slot] = InitOf(i)]
        /\ result' = [Outcome("launch", i, IF slot = NoPid THEN "err" ELSE ex.kind,
                              IF slot = NoPid THEN "container" ELSE ex.why, <<>>, NoPid)
                         EXCEPT !.env = EnvStep(envOk)]

\* Distro::launch after the /etc/environment step: Container::launch
\* (slot = NoPid: it fails, and launch returns its error), then
\* export_run_info, whose result is the result
LaunchContainerAndExport(i, slot, envOk) ==
    IF slot = NoPid
    THEN /\ result' = [Outcome("launch", i, "err", "container", <<>>, NoPid)
                          EXCEPT !.env = EnvStep(envOk)]
         /\ UNCHANGED <<file, proc, distro, lastWriter>>
    ELSE LET d == [distro[i] EXCEPT !.init_pid = slot, !.pc = "launched"]
             ex == export_run_info(file, d, i)
         IN  /\ proc' = [proc EXCEPT ![slot] = InitOf(i)]
             /\ distro' = [distro EXCEPT ![i] = d]
             /\ file' = ex.file
             /\ lastWriter' = IF ex.kind = "ok" THEN i ELSE lastWriter
             /\ result' = [Outcome("launch", i, ex.kind, ex.why, <<>>, NoPid)
                              EXCEPT !.env = EnvStep(envOk)]

LaunchAbortsOnEnvFailure(i) ==
    /\ distro[i].pc = "new"
    /\ \E envOk \in BOOLEAN, slot \in Pids \cup {NoPid} :
        /\ slot # NoPid => proc[slot].kind = "free"
        /\ EnvPrepared(i, envOk)
        /\ IF envOk THEN LaunchContainerAndExport(i, slot, envOk)
           ELSE /\ result' = [Outcome("launch", i, "err", "env", <<>>, NoPid)
                                 EXCEPT !.env = "err"]
                /\ UNCHANGED <<file, proc, distro, lastWriter>>
    /\ UNCHANGED <<pathIn, pathOut, tree, mounts>>

\* Distro::launch: prepare /etc/environment (a failure is only logged),
\* Container::launch, then export_run_info
Launch(i) ==
    /\ distro[i].pc = "new"
    /\ \E envOk \in BOOLEAN, slot \in Pids \cup {NoPid} :
        /\ slot # NoPid => proc[slot].kind = "free"
        /\ EnvPrepared(i, envOk)
        /\ LaunchContainerAndExport(i, slot, envOk)
    /\ UNCHANGED <<pathIn, pathOut, tree, mounts>>

Signal(sigkill) == IF sigkill THEN "sigkill" ELSE "sigterm"

\* Container::stop(sigkill) called by stop(arg): a stop that succeeded has
\* ended the init process and consumed the Distro value
ContainerStop(i, stopOk, sigkill, arg, envOk) ==
    /\ proc' = [p \in DOMAIN proc |-> IF stopOk /\ proc[p] = InitOf(i) THEN FreeSlot ELSE proc[p]]
    /\ distro' = [distro EXCEPT ![i] = IF stopOk
                                        THEN [@ EXCEPT !.pc = "stopped", !.init_pid = NoPid]
                                        ELSE @]
    /\ result' = [Outcome("stop", i, IF stopOk THEN "ok" ELSE "err", Signal(sigkill),
                          <<>>, NoPid)
                     EXCEPT !.env = EnvStep(envOk), !.arg = Signal(arg)]

StopSkipsContainerOnCleanupFailure(i) ==
    /\ distro[i].pc = "launched"
    /\ \E envOk \in BOOLEAN, stopOk \in BOOLEAN, sigkill \in BOOLEAN :
        /\ EnvCleaned(i, envOk)
        /\ IF envOk THEN ContainerStop(i, stopOk, sigkill, sigkill, envOk)
           ELSE /\ result' = [Outcome("stop", i, "err", "cleanup", <<>>, NoPid)
                                 EXCEPT !.env = "err", !.arg = Signal(sigkill)]
                /\ UNCHANGED <<proc, distro>>
    /\ UNCHANGED <<file, pathIn, pathOut, lastWriter, tree, mounts>>

\* Distro::stop(sigkill): clean /etc/environment (a failure is only logged),
\* then Container::stop(sigkill), whose result is the result
Stop(i) ==
    /\ distro[i].pc = "launched"
    /\ \E envOk \in BOOLEAN, stopOk \in BOOLEAN, sigkill \in BOOLEAN :
        /\ EnvCleaned(i, envOk)
        /\ ContainerStop(i, stopOk, sigkill, sigkill, envOk)
    /\ UNCHANGED <<file, pathIn, pathOut, lastWriter, tree, mounts>>

\* Distro::get_installed_distro(Some(rootfs)) on a rootfs directory whose
\* last Distro value was consumed by stop: a new, unlaunched Distro
GetInstalledDistro(i) ==
    /\ distro[i].pc = "stopped"
    /\ distro' = [distro EXCEPT ![i] = NewDistro(i)]
    /\ result' = Outcome("installed", i, "some", "", RootfsOf(i), NoPid)
    /\ UNCHANGED <<file, proc, etcEnv, preEnv, envPhase, pathIn, pathOut, lastWriter, tree, mounts>>

\* Distro::get_running_distro, in any process
GetRunningDistro ==
    /\ result' = get_running_distro(file, proc)
    /\ UNCHANGED <<file, proc, distro, etcEnv, preEnv, envPhase, pathIn, pathOut, lastWriter, tree, mounts>>

\* the RunInfo-export step applied to a Distro that was not launched
ExportRunInfo(i) ==
    /\ distro[i].pc = "new"
    /\ LET ex == export_run_info(file, distro[i], i)
       IN  /\ file' = ex.file
           /\ lastWriter' = IF ex.kind = "ok" THEN i ELSE lastWriter
           /\ result' = Outcome("export", i, ex.kind, ex.why, <<>>, NoPid)
    /\ UNCHANGED <<proc, distro, etcEnv, preEnv, envPhase, pathIn, pathOut, tree, mounts>>

\* the environment: an init process exits on its own
InitExit(p) ==
    /\ proc[p].kind = "init"
    /\ proc' = [proc EXCEPT ![p] = FreeSlot]
    /\ result' = NoOutcome
    /\ UNCHANGED <<file, distro, etcEnv, preEnv, envPhase, pathIn, pathOut, lastWriter, tree, mounts>>

\* the environment: the kernel hands a free PID to an unrelated process
SpawnOther(p) ==
    /\ proc[p].kind = "free"
    /\ proc' = [proc EXCEPT ![p] = OtherProcess]
    /\ result' = NoOutcome
    /\ UNCHANGED <<file, distro, etcEnv, preEnv, envPhase, pathIn, pathOut, lastWriter, tree, mounts>>

OtherExit(p) ==
    /\ proc[p].kind = "other"
    /\ proc' = [proc EXCEPT ![p] = FreeSlot]
    /\ result' = NoOutcome
    /\ UNCHANGED <<file, distro, etcEnv, preEnv, envPhase, pathIn, pathOut, lastWriter, tree, mounts>>

\* the environment: a non-root identity puts a file at the RunInfo path
PlantFile ==
    /\ ~file.exists
    /\ \E u \in {0, 1000}, g \in {0, 1000} :
        /\ u # 0 \/ g # 0
        /\ file' = [exists |-> TRUE, uid |-> u, gid |-> g, ino |-> 0,
                    data |-> Serialize(DistroRunInfo(RootfsOf(1), 1))]
    /\ result' = NoOutcome
    /\ UNCHANGED <<proc, distro, etcEnv, preEnv, envPhase, pathIn, pathOut, lastWriter, tree, mounts>>

Next ==
    \/ \E i \in Launchers : Launch(i)
    \/ \E i \in Launchers : Stop(i)
    \/ \E i \in Launchers : GetInstalledDistro(i)
    \/ GetRunningDistro
    \/ \E i \in Launchers : ExportRunInfo(i)
    \/ \E p \in Pids : InitExit(p)
    \/ \E p \in Pids : SpawnOther(p)
    \/ \E p \in Pids : OtherExit(p)
    \/ PlantFile

Spec == Init /\ [][Next]_vars

\* ------------------------------------------------------------- concurrent launches
\* launch() in several processes at once, one system call of export_run_info
\* per step, with get_running_distro() in yet another process.
OldRunInfoFile ==
    [exists |-> TRUE, uid |-> 0, gid |-> 0, ino |-> 0,
     data |-> Serialize(DistroRunInfo(RootfsOf(1), 1))]

InitConc ==
    /\ file \in {NoRunInfoFile, OldRunInfoFile}
    /\ proc = [p \in ConcPids |-> FreeSlot]
    /\ distro = [i \in ConcLaunchers |-> NewDistro(i)]
    /\ etcEnv = [i \in ConcLaunchers |-> AbsentFile]
    /\ preEnv = [i \in ConcLaunchers |-> AbsentFile]
    /\ envPhase = [i \in ConcLaunchers |-> "orig"]
    /\ pathIn = UnsetPath
    /\ pathOut = <<>>
    /\ lastWriter = 0
    /\ tree = NoTree
    /\ mounts = NoMounts
    /\ result = NoOutcome

\* Distro::launch up to the call of export_run_info
LaunchContainer(i) ==
    /\ distro[i].pc = "new"
    /\ \E envOk \in BOOLEAN, slot \in ConcPids \cup {NoPid} :
        /\ slot # NoPid => proc[slot].kind = "free"
        /\ EnvPrepared(i, envOk)
        /\ IF slot = NoPid
           THEN /\ result' = [Outcome("launch", i, "err", "container", <<>>, NoPid)
                                 EXCEPT !.env = EnvStep(envOk)]
                /\ UNCHANGED <<proc, distro>>
           ELSE /\ proc' = [proc EXCEPT ![slot] = InitOf(i)]
                /\ distro' = [distro EXCEPT ![i].init_pid = slot, ![i].pc = "probe"]
                /\ result' = NoOutcome
    /\ UNCHANGED <<file, pathIn, pathOut, lastWriter, tree, mounts>>

\* export_run_info: get_distro_run_info_file(false, false)
ExportProbe(i) ==
    /\ distro[i].pc = "probe"
    /\ LET probe == get_distro_run_info_file(file, FALSE, FALSE, i)
       IN  distro' = [distro EXCEPT ![i].pc = IF probe.kind = "file" THEN "remove" ELSE "create"]
    /\ result' = NoOutcome
    /\ UNCHANGED <<file, proc, etcEnv, preEnv, envPhase, pathIn, pathOut, lastWriter, tree, mounts>>

\* export_run_info: fs::remove_file, an error if the file is gone by now
ExportRemove(i) ==
    /\ distro[i].pc = "remove"
    /\ IF file.exists
       THEN /\ file' = NoRunInfoFile
            /\ distro' = [distro EXCEPT ![i].pc = "create"]
            /\ result' = NoOutcome
       ELSE /\ distro' = [distro EXCEPT ![i].pc = "export_failed"]
            /\ result' = Outcome("launch", i, "err", "remove", <<>>, NoPid)
            /\ UNCHANGED file
    /\ UNCHANGED <<proc, etcEnv, preEnv, envPhase, pathIn, pathOut, lastWriter, tree, mounts>>

\* export_run_info: get_distro_run_info_file(true, true), then the init PID
ExportCreate(i) ==
    /\ distro[i].pc = "create"
    /\ LET opened == get_distro_run_info_file(file, TRUE, TRUE, i)
       IN  IF opened.kind = "err"
           THEN /\ distro' = [distro EXCEPT ![i].pc = "export_failed"]
                /\ result' = Outcome("launch", i, "err", "owner", <<>>, NoPid)
                /\ UNCHANGED file
           ELSE /\ file' = opened.file
                /\ IF distro[i].init_pid = NoPid
                   THEN /\ distro' = [distro EXCEPT ![i].pc = "export_failed"]
                        /\ result' = Outcome("launch", i, "err", "nopid", <<>>, NoPid)
                   ELSE /\ distro' = [distro EXCEPT ![i].pc = "write",
                                                   ![i].fd = opened.file.ino]
                        /\ result' = NoOutcome
    /\ UNCHANGED <<proc, etcEnv, preEnv, envPhase, pathIn, pathOut, lastWriter, tree, mounts>>

\* export_run_info: the BufWriter is flushed when it is dropped; the bytes go
\* to the inode the descriptor names, which the path may no longer name
ExportWrite(i) ==
    /\ distro[i].pc = "write"
    /\ file' = IF file.exists /\ file.ino = distro[i].fd
               THEN [file EXCEPT !.data = WriteAt0(@, Serialize(
                                     DistroRunInfo(distro[i].rootfs, distro[i].init_pid)))]
               ELSE file
    /\ distro' = [distro EXCEPT ![i].pc = "launched"]
    /\ lastWriter' = i
    /\ result' = Outcome("launch", i, "ok", "", <<>>, NoPid)
    /\ UNCHANGED <<proc, etcEnv, preEnv, envPhase, pathIn, pathOut, tree, mounts>>

NextConc ==
    \/ \E i \in ConcLaunchers : LaunchContainer(i)
    \/ \E i \in ConcLaunchers : ExportProbe(i)
    \/ \E i \in ConcLaunchers : ExportRemove(i)
    \/ \E i \in ConcLaunchers : ExportCreate(i)
    \/ \E i \in ConcLaunchers : ExportWrite(i)
    \/ GetRunningDistro

SpecConc == InitConc /\ [][NextConc]_vars

\* ------------------------------------------------------------- /etc/environment
\* The preparation and the cleanup of /etc/environment applied to the files
\* a rootfs can hold before its first launch.
EnvLines ==
    {EnvLine("PATH", v) : v \in PathStrings}
    \cup {EnvLine("WSLENV", <<"/">>), EnvLine("WSLENV", <<"d">>)}
    \cup {EnvLine("FOO", <<"d">>), EnvLine("#", <<>>)}

\* documents of at most MaxLines lines, one line per key
EnvDocs ==
    {doc \in SeqsUpTo(EnvLines, MaxLines) :
        \A a, b \in 1..Len(doc) : doc[a].key = doc[b].key => a = b}

InitEnv ==
    /\ file = NoRunInfoFile
    /\ proc = [p \in Pids |-> FreeSlot]
    /\ distro = [i \in Launchers |-> NewDistro(i)]
    /\ \E doc \in EnvDocs, present \in BOOLEAN :
        /\ ~present => doc = <<>>
        /\ etcEnv = [i \in Launchers |->
                        IF i = 1 /\ present THEN EnvSave(doc) ELSE AbsentFile]
    /\ preEnv = etcEnv
    /\ envPhase = [i \in Launchers |-> "orig"]
    /\ pathIn = UnsetPath
    /\ pathOut = <<>>
    /\ lastWriter = 0
    /\ tree = NoTree
    /\ mounts = NoMounts
    /\ result = NoOutcome

\* setup_etc_environment_file(rootfs), as launch() calls it
PrepareEnv(i) ==
    /\ \E ok \in BOOLEAN :
        /\ EnvPrepared(i, ok)
        /\ result' = Outcome("setup", i, IF ok THEN "ok" ELSE "err", "", <<>>, NoPid)
    /\ UNCHANGED <<file, proc, distro, pathIn, pathOut, lastWriter, tree, mounts>>

\* cleanup_etc_environment_file(rootfs), as stop() calls it
CleanEnv(i) ==
    /\ \E ok \in BOOLEAN :
        /\ EnvCleaned(i, ok)
        /\ result' = Outcome("cleanup", i, IF ok THEN "ok" ELSE "err", "", <<>>, NoPid)
    /\ UNCHANGED <<file, proc, distro, pathIn, pathOut, lastWriter, tree, mounts>>

NextEnv ==
    \/ \E i \in Launchers : PrepareEnv(i)
    \/ \E i \in Launchers : CleanEnv(i)

SpecEnv == InitEnv /\ [][NextEnv]_vars

\* ------------------------------------------------------------- PATH operations
HostPaths == {UnsetPath} \cup {[set |-> TRUE, val |-> v] : v \in PathStrings}

\* the system before any launch, or with the first Distro launched
InitPath ==
    \E running \in BOOLEAN :
        LET d == IF running
                 THEN [NewDistro(1) EXCEPT !.init_pid = 1, !.pc = "launched"]
                 ELSE NewDistro(1)
        IN  /\ file = IF running THEN export_run_info(NoRunInfoFile, d, 1).file
                      ELSE NoRunInfoFile
            /\ proc = [p \in Pids |-> IF running /\ p = 1 THEN InitOf(1) ELSE FreeSlot]
            /\ distro = [i \in Launchers |-> IF i = 1 THEN d ELSE NewDistro(i)]
            /\ etcEnv = [i \in Launchers |->
                            IF running /\ i = 1 THEN setup_etc_environment_file(AbsentFile)
                            ELSE AbsentFile]
            /\ preEnv = [i \in Launchers |-> AbsentFile]
            /\ envPhase = [i \in Launchers |-> IF running /\ i = 1 THEN "setup" ELSE "orig"]
            /\ pathIn = UnsetPath
            /\ pathOut = <<>>
            /\ lastWriter = IF running THEN 1 ELSE 0
            /\ tree = NoTree
            /\ mounts = NoMounts
            /\ result = NoOutcome

\* Distro::exec_command: PATH of the command is the tooling bin directory
\* put before the caller's PATH (empty if unset); Container::exec_command
\* refuses a container that is not launched
ExecCommand(i) ==
    /\ \E p \in HostPaths :
        /\ pathIn' = p
        /\ pathOut' = add_distrod_bin_to_path(IF p.set THEN p.val ELSE <<>>)
    /\ result' = Outcome("exec", i, IF distro[i].pc = "launched" THEN "ok" ELSE "err",
                         "", <<>>, NoPid)
    /\ UNCHANGED <<file, proc, distro, etcEnv, preEnv, envPhase, lastWriter, tree, mounts>>

\* remove_distrod_bin_from_path(add_distrod_bin_to_path(S))
AddThenRemove ==
    /\ \E s \in PathStrings :
        /\ pathIn' = [set |-> TRUE, val |-> s]
        /\ pathOut' = remove_distrod_bin_from_path(add_distrod_bin_to_path(s))
    /\ result' = Outcome("add_remove", 0, "ok", "", <<>>, NoPid)
    /\ UNCHANGED <<file, proc, distro, etcEnv, preEnv, envPhase, lastWriter, tree, mounts>>

\* remove_distrod_bin_from_path(S)
RemoveOnly ==
    /\ \E s \in PathStrings :
        /\ pathIn' = [set |-> TRUE, val |-> s]
        /\ pathOut' = remove_distrod_bin_from_path(s)
    /\ result' = Outcome("remove", 0, "ok", "", <<>>, NoPid)
    /\ UNCHANGED <<file, proc, distro, etcEnv, preEnv, envPhase, lastWriter, tree, mounts>>

NextPath ==
    \/ \E i \in Launchers : ExecCommand(i)
    \/ AddThenRemove
    \/ RemoveOnly

SpecPath == InitPath /\ [][NextPath]_vars

\* ------------------------------------------------------------- rootfs operations
InitRootfs ==
    /\ file = NoRunInfoFile
    /\ proc = [p \in Pids |-> FreeSlot]
    /\ distro = [i \in Launchers |-> NewDistro(i)]
    /\ etcEnv = [i \in Launchers |-> AbsentFile]
    /\ preEnv = etcEnv
    /\ envPhase = [i \in Launchers |-> "orig"]
    /\ pathIn = UnsetPath
    /\ pathOut = <<>>
    /\ lastWriter = 0
    /\ tree \in Trees
    /\ mounts = NoMounts
    /\ result = NoOutcome

\* get_installed_distro(Some(path)) on the path of the tree
GetInstalledDistroAt ==
    /\ result' = Outcome("installed", 0, get_installed_distro(tree).kind, "", <<>>, NoPid)
    /\ UNCHANGED <<file, proc, distro, etcEnv, preEnv, envPhase, pathIn, pathOut, lastWriter,
                   tree, mounts>>

\* initialize_distro_rootfs(path, flag) on the path of the tree
InitializeDistroRootfs ==
    /\ \E flag \in BOOLEAN :
        LET r == initialize_distro_rootfs(tree, flag)
        IN  /\ tree' = r.tree
            /\ result' = [Outcome("initialize", 0, r.kind, r.why, <<>>, NoPid)
                             EXCEPT !.arg = IF flag THEN "overwrite" ELSE "keep"]
    /\ UNCHANGED <<file, proc, distro, etcEnv, preEnv, envPhase, pathIn, pathOut, lastWriter,
                   mounts>>

NextRootfs ==
    \/ GetInstalledDistroAt
    \/ InitializeDistroRootfs

SpecRootfs == InitRootfs /\ [][NextRootfs]_vars

\* ------------------------------------------------------------- mount inspection
InitMounts ==
    /\ file = NoRunInfoFile
    /\ proc = [p \in Pids |-> FreeSlot]
    /\ distro = [i \in Launchers |-> NewDistro(i)]
    /\ etcEnv = [i \in Launchers |-> AbsentFile]
    /\ preEnv = etcEnv
    /\ envPhase = [i \in Launchers |-> "orig"]
    /\ pathIn = UnsetPath
    /\ pathOut = <<>>
    /\ lastWriter = 0
    /\ tree = NoTree
    /\ mounts = NoMounts
    /\ result = NoOutcome

\* Distro::is_inside_running_distro()
IsInsideRunningDistro ==
    /\ result' = Outcome("inside", 0, IF is_inside_running_distro(mounts) THEN "true" ELSE "false",
                         "", <<>>, NoPid)
    /\ UNCHANGED <<file, proc, distro, etcEnv, preEnv, envPhase, pathIn, pathOut, lastWriter,
                   tree, mounts>>

\* the environment: a file system is mounted at a path
Mount(path) ==
    /\ Len(mounts.entries) < MaxMounts
    /\ mounts' = [mounts EXCEPT !.entries = Append(@, path)]
    /\ result' = NoOutcome
    /\ UNCHANGED <<file, proc, distro, etcEnv, preEnv, envPhase, pathIn, pathOut, lastWriter,
                   tree>>

\* the environment: the k-th mount is unmounted
Unmount(k) ==
    /\ k \in DOMAIN mounts.entries
    /\ mounts' = [mounts EXCEPT !.entries = SubSeq(@, 1, k - 1) \o SubSeq(@, k + 1, Len(@))]
    /\ result' = NoOutcome
    /\ UNCHANGED <<file, proc, distro, etcEnv, preEnv, envPhase, pathIn, pathOut, lastWriter,
                   tree>>

\* the environment: the mount table becomes unreadable, or readable again
MountTableAccess ==
    /\ mounts' = [mounts EXCEPT !.readable = ~@]
    /\ result' = NoOutcome
    /\ UNCHANGED <<file, proc, distro, etcEnv, preEnv, envPhase, pathIn, pathOut, lastWriter,
                   tree>>

NextMounts ==
    \/ IsInsideRunningDistro
    \/ \E path \in MountPaths : Mount(path)
    \/ \E k \in 1..MaxMounts : Unmount(k)
    \/ MountTableAccess

SpecMounts == InitMounts /\ [][NextMounts]_vars

\* ------------------------------------------------------------- properties
RootOwned(f) == f.uid = 0 /\ f.gid = 0

Alive(pid) == pid \in DOMAIN proc /\ proc[pid].kind # "free"

\* C1: get_running_distro() returns none when the RunInfo file is absent,
\* none when the file holds a record whose init PID is not a live process,
\* and otherwise a Distro with the recorded rootfs bound to the recorded
\* init PID; a none result carries no Container.
C1_RunningDistroContract ==
    result.op = "get" =>
        LET parsed == Parse(file.data)
            recorded == file.exists /\ RootOwned(file) /\ parsed.ok
        IN  /\ ~file.exists => result.kind = "none"
            /\ (recorded /\ ~Alive(parsed.rec.init_pid)) => result.kind = "none"
            /\ (recorded /\ Alive(parsed.rec.init_pid)) =>
                   /\ result.kind = "some"
                   /\ result.rootfs = parsed.rec.rootfs
                   /\ result.pid = parsed.rec.init_pid
            /\ result.kind = "none" => result.pid = NoPid /\ result.rootfs = <<>>
            /\ result.kind = "some" => recorded /\ Alive(result.pid)

\* a rediscovery that found a stale record and answered none
C1_Witness ==
    /\ result.op = "get"
    /\ result.kind = "none"
    /\ file.exists /\ RootOwned(file) /\ Parse(file.data).ok
    /\ ~Alive(Parse(file.data).rec.init_pid)

\* C2: get_running_distro() never returns a Distro bound to a process other
\* than the init process that launch() started and recorded.
C2_PidReuseSafe ==
    (result.op = "get" /\ result.kind = "some") =>
        \E i \in DOMAIN distro :
            /\ proc[result.pid] = InitOf(i)
            /\ result.rootfs = distro[i].rootfs

\* C3: export_run_info on a Distro with no init PID returns an error and
\* writes no byte of a record: the file is as it was, or is empty.
C3_ExportUnlaunchedFails ==
    [][\A i \in DOMAIN distro :
          (result'.op = "export" /\ result'.who = i /\ distro[i].init_pid = NoPid) =>
              /\ result'.kind = "err"
              /\ file' = file \/ (file'.exists /\ file'.data = <<>>)]_vars

\* an export on an unlaunched Distro that got as far as the init PID
C3_Witness ==
    /\ result.op = "export"
    /\ result.kind = "err"
    /\ result.why = "nopid"
    /\ distro[result.who].init_pid = NoPid

\* C4: while the RunInfo file exists and is not owned by root:root,
\* get_running_distro, launch and the export step end in an error and leave
\* the file as it is.
C4_ForeignFileFailsClosed ==
    [][(/\ file.exists
        /\ ~RootOwned(file)
        /\ result'.op \in {"get", "launch", "export"}) =>
           /\ result'.kind = "err"
           /\ result'.why \in {"owner", "container"}
           /\ file' = file]_vars

\* a launch whose container started and whose export met a foreign file
C4_Witness ==
    /\ result.op = "launch"
    /\ result.why = "owner"
    /\ file.exists
    /\ ~RootOwned(file)
    /\ distro[result.who].pc = "launched"

\* C5: a get_running_distro() that runs while a launch is exporting never
\* fails to parse the RunInfo file.
C5_AtomicReplace == result.op = "get" => result.why # "parse"

\* C6: once every concurrent launch has finished, the RunInfo file holds
\* exactly the record of the launcher whose write came last.
C6_LastWriterWins ==
    (/\ \A i \in DOMAIN distro : distro[i].pc \in {"launched", "export_failed"}
     /\ lastWriter # 0) =>
        /\ file.exists
        /\ file.data = Serialize(DistroRunInfo(distro[lastWriter].rootfs,
                                               distro[lastWriter].init_pid))

\* C7: after a launch that succeeded and a stop that completed, with no
\* launch since, get_running_distro() returns none.
C7_NoneAfterStop ==
    (/\ result.op = "get"
     /\ lastWriter # 0
     /\ distro[lastWriter].pc = "stopped"
     /\ file.exists
     /\ file.ino = lastWriter) => result.kind = "none"

\* C8: the stop-time cleanup after the launch-time setup leaves
\* /etc/environment as it was before the launch, whatever it held.
C8_StopReversesLaunch ==
    \A i \in DOMAIN etcEnv : envPhase[i] = "cleaned" => etcEnv[i] = preEnv[i]

\* C9: for a PATH S without the tooling bin directory, removing the prefix
\* after adding it gives S back, and removing it from S changes nothing.
C9_RemoveUndoesAdd ==
    (/\ result.op \in {"add_remove", "remove"}
     /\ ~Contains(pathIn.val, DistrodBinDir)) => pathOut = pathIn.val

\* an add-then-remove of a PATH that ends like the start of the prefix
C9_Witness ==
    /\ result.op = "add_remove"
    /\ pathIn.val = <<"d", ":", "/">>
    /\ pathOut = pathIn.val

\* C10: the PATH exec_command gives a command holds the tooling bin
\* directory exactly once, whatever the caller's PATH was.
C10_AddIsIdempotent ==
    result.op = "exec" => Occurrences(pathOut, DistrodBinDir) = 1

\* C11: a failure of the /etc/environment preparation never decides
\* launch(): the result is ok exactly when the container was launched and
\* its record exported, and an error comes from Container::launch or from
\* export_run_info only.
C11_EnvFailureDoesNotAbortLaunch ==
    result.op = "launch" =>
        LET d == distro[result.who]
        IN  /\ result.kind = "ok" <=>
                   /\ d.pc = "launched"
                   /\ file.exists /\ RootOwned(file)
                   /\ file.data = Serialize(DistroRunInfo(d.rootfs, d.init_pid))
            /\ result.kind = "err" =>
                   /\ result.why \in {"container", "owner"}
                   /\ result.why = "container" <=> d.pc = "new"

\* a launch whose environment preparation failed and that succeeded
C11_Witness ==
    /\ result.op = "launch"
    /\ result.env = "err"
    /\ result.kind = "ok"
    /\ distro[result.who].pc = "launched"
    /\ proc[distro[result.who].init_pid] = InitOf(result.who)

\* C12: a failure of the /etc/environment cleanup never decides stop():
\* Container::stop is called with the sigkill flag stop() was given, and its
\* result is the result.
C12_CleanupFailureDoesNotPreventStop ==
    result.op = "stop" =>
        /\ result.why \in {"sigkill", "sigterm"}
        /\ result.why = result.arg
        /\ result.kind = "ok" <=> distro[result.who].pc = "stopped"
        /\ result.kind = "ok" => \A p \in DOMAIN proc : proc[p] # InitOf(result.who)
        /\ result.kind = "err" <=> distro[result.who].pc = "launched"

\* a stop whose cleanup failed and that stopped the container
C12_Witness ==
    /\ result.op = "stop"
    /\ result.env = "err"
    /\ result.kind = "ok"
    /\ distro[result.who].pc = "stopped"

\* C16: an export_run_info that fails for want of an init PID leaves the
\* RunInfo file exactly as it was before the call.
C16_FailedExportLeavesFile ==
    [][(result'.op = "export" /\ result'.why = "nopid") => file' = file]_vars

\* C17: launch() touches the RunInfo file only after Container::launch
\* succeeded: a launch whose container launch failed returns an error and
\* leaves the file as it was, and a launch that changed the file has a
\* launched container with a live init process.
C17_ExportOnlyAfterContainerLaunch ==
    [][\A i \in DOMAIN distro :
          (result'.op = "launch" /\ result'.who = i /\ distro[i].pc = "new") =>
              /\ distro'[i].pc = "new" =>
                     /\ result'.kind = "err"
                     /\ result'.why = "container"
                     /\ file' = file
              /\ file' # file =>
                     /\ distro'[i].pc = "launched"
                     /\ distro'[i].init_pid # NoPid
                     /\ proc'[distro'[i].init_pid] = InitOf(i)]_vars

\* a launch whose container launch failed while a record was on disk
C17_Witness ==
    /\ result.op = "launch"
    /\ result.kind = "err"
    /\ result.why = "container"
    /\ distro[result.who].pc = "new"
    /\ file.exists /\ Parse(file.data).ok

\* C18: after a successful launch() of rootfs R with init PID X, while that
\* init process is alive and no later export has replaced the file,
\* get_running_distro() returns a Distro with rootfs R bound to PID X.
C18_LaunchThenRediscover ==
    \A i \in DOMAIN distro :
        (/\ result.op = "get"
         /\ lastWriter = i
         /\ distro[i].pc = "launched"
         /\ proc[distro[i].init_pid] = InitOf(i)
         /\ file.exists /\ file.ino = i) =>
            /\ result.kind = "some"
            /\ result.rootfs = distro[i].rootfs
            /\ result.pid = distro[i].init_pid

\* a rediscovery of a launched Distro whose init process is alive
C18_Witness ==
    \E i \in DOMAIN distro :
        /\ result.op = "get"
        /\ result.kind = "some"
        /\ lastWriter = i
        /\ distro[i].pc = "launched"
        /\ proc[distro[i].init_pid] = InitOf(i)
        /\ result.rootfs = RootfsOf(i)
        /\ result.pid = distro[i].init_pid

\* C13 as stated: initialize_distro_rootfs touches etc/resolv.conf and the
\* units of the fixed lists only if the flag is set.
C13_FlagGuardsResolvAndUnits ==
    [][(result'.op = "initialize" /\ result'.arg = "keep") =>
           /\ tree'.resolv = tree.resolv
           /\ tree'.units = tree.units]_vars

\* C13 amended: etc/resolv.conf is deleted and recreated empty only if the
\* flag is set and is left alone otherwise; the units of the fixed lists are
\* disabled and masked by every call that succeeds, whatever the flag.
C13_FlagGuardsResolvOnly ==
    [][result'.op = "initialize" =>
           /\ result'.arg = "keep" => tree'.resolv = tree.resolv
           /\ tree'.resolv # tree.resolv => result'.arg = "overwrite" /\ tree'.resolv = "empty"
           /\ (result'.kind = "ok" /\ result'.arg = "overwrite") => tree'.resolv = "empty"
           /\ result'.kind = "ok" =>
                  \A u \in Units :
                      tree'.units[u] = UnitAfter(tree.units[u], IF u \in to_be_disabled
                                                                THEN "disabled" ELSE "masked")
           /\ result'.kind = "err" => tree'.units = tree.units]_vars

\* a call without the flag that kept the user's resolv.conf and disabled
\* and masked units
C13_Witness ==
    /\ result.op = "initialize"
    /\ result.arg = "keep"
    /\ result.kind = "ok"
    /\ tree.resolv = "user"
    /\ \E u \in to_be_disabled : tree.units[u] = "disabled"
    /\ \E u \in to_be_masked : tree.units[u] = "masked"

\* C14 as stated: on a path that is not a directory, get_installed_distro
\* and initialize_distro_rootfs both fail with "not a directory".
C14_NonDirectoryFails ==
    [][(tree.kind # "dir" /\ result'.op \in {"installed", "initialize"}) =>
           /\ result'.kind = "err"
           /\ result'.why = "notdir"]_vars

\* C14 amended: on a path that is not a directory, get_installed_distro
\* returns none without an error, and initialize_distro_rootfs fails and
\* changes nothing: with "not a directory" when the path exists, with the
\* error of fs::metadata when it does not.
C14_NonDirectoryNoneOrError ==
    [][tree.kind # "dir" =>
           /\ result'.op = "installed" => result'.kind = "none" /\ tree' = tree
           /\ result'.op = "initialize" =>
                  /\ result'.kind = "err"
                  /\ result'.why = IF tree.kind = "file" THEN "notdir" ELSE "metadata"
                  /\ tree' = tree]_vars

\* get_installed_distro on a regular file answered none
C14_Witness ==
    /\ tree.kind = "file"
    /\ result.op = "installed"
    /\ result.kind = "none"

\* C15: is_inside_running_distro() is true when the mount table cannot be
\* read, and otherwise true exactly when some mount entry's path has
\* /mnt/distrod_root as a prefix.
C15_InsideRunningDistro ==
    result.op = "inside" =>
        /\ ~mounts.readable => result.kind = "true"
        /\ mounts.readable =>
               (result.kind = "true" <=>
                    \E k \in DOMAIN mounts.entries :
                        /\ Len(mounts.entries[k]) >= 2
                        /\ mounts.entries[k][1] = "mnt"
                        /\ mounts.entries[k][2] = "distrod_root")
        /\ result.kind \in {"true", "false"}

\* an inspection that could not read the mount table and answered true
C15_Witness ==
    /\ result.op = "inside"
    /\ ~mounts.readable
    /\ \A k \in DOMAIN mounts.entries : ~StartsWith(mounts.entries[k], DISTRO_OLD_ROOT_PATH)
    /\ result.kind = "true"

====
